---------------------------- MODULE Spec2Model ----------------------------
(***************************************************************************)
(* Event controller of roadamico (server/api/event/event.controller.js):   *)
(* the authorization predicates canView / canEdit and the request handlers *)
(* all, show, create, update, cancel, join, unjoin and message over the    *)
(* Event collection, with the notifications they submit.                   *)
(*                                                                         *)
(* JavaScript objects are functions from field names to values: a field    *)
(* that is undefined is a name outside the object's DOMAIN, and            *)
(* `delete o.f` removes f from the DOMAIN.                                 *)
(***************************************************************************)
EXTENDS Integers, Sequences, FiniteSets, TLC

VARIABLES
  events,         \* the Event collection: events[id] is the stored document
  notifications,  \* the Notification collection, in order of creation
  now,            \* moment(): a logical clock, one tick per request received
  resp,           \* the response sent to the last request that was answered
  pending,        \* join requests between their findById and save callbacks
  pc,             \* position of the evaluation of the predicates
  pUser,          \* the user the predicates are evaluated on
  pEvent,         \* the event the predicates are evaluated on
  pView,          \* the value canView returned
  pEdit           \* the completion of canEdit

vars == <<events, notifications, now, resp, pending, pc, pUser, pEvent, pView, pEdit>>

---------------------------------------------------------------------------
(* Bounds *)

MaxEvents == 1        \* events created
MaxRequests == 4      \* requests received
MaxMessages == 1      \* messages of one event
MaxPending == 2       \* join requests in flight at once
MaxRestriction == 2   \* groups in the groupRestriction the predicates are given
MaxUserGroups == 2    \* groups of the user the predicates are given

---------------------------------------------------------------------------
(* JavaScript values *)

EmptyObject == [k \in {} |-> k]

has(o, f) == f \in DOMAIN o

delete(o, f) == [k \in DOMAIN o \ {f} |-> o[k]]

\* !!s for a string: the empty string is falsy
truthyString(s) == s # ""

\* req.user when no user is authenticated
NoUser == EmptyObject

present(user) == has(user, "_id")

Range(s) == {s[i] : i \in DOMAIN s}

RECURSIVE SeqsUpTo(_, _)
SeqsUpTo(S, n) ==
  IF n = 0 THEN {<<>>}
  ELSE LET shorter == SeqsUpTo(S, n - 1)
       IN shorter \cup {Append(s, x) : s \in {t \in shorter : Len(t) = n - 1}, x \in S}

\* the objects with field k drawn from V, or without it
Optional(k, V) == {EmptyObject} \cup {k :> v : v \in V}

---------------------------------------------------------------------------
(* Authorization predicates *)

\* canView without the test of the user's own groups
canView_ignoresMembership(user, event) ==
  LET a == ~(has(event, "groupRestriction") /\ Len(event.groupRestriction) # 0)
  IN IF ~present(user) THEN a
     ELSE LET b == user.role = "admin" \/ user.role = "curator"
              c == has(event, "groupRestriction") /\
                   \E i \in DOMAIN event.groupRestriction :
                     LET group == event.groupRestriction[i]
                     IN has(group, "administrator") /\ group.administrator = user._id
          IN a \/ b \/ c

canView(user, event) ==
  LET a == ~(has(event, "groupRestriction") /\ Len(event.groupRestriction) # 0)
  IN IF ~present(user) THEN a
     ELSE LET b == user.role = "admin" \/ user.role = "curator"
              \* _.find over an undefined collection finds nothing
              c == has(event, "groupRestriction") /\
                   \E i \in DOMAIN event.groupRestriction :
                     LET group == event.groupRestriction[i]
                     IN \/ has(group, "administrator") /\ group.administrator = user._id
                        \/ has(user, "groups") /\
                           \E j \in DOMAIN user.groups : group._id = user.groups[j]
          IN a \/ b \/ c

\* A completion of a call: a returned value or a thrown error
Returned(v) == [threw |-> FALSE, value |-> v]
Threw(e) == [threw |-> TRUE, error |-> e]

canEdit(user, event) ==
  \* user.role on an undefined user throws before anything is computed
  IF ~present(user) THEN Threw("TypeError")
  ELSE LET a == user.role = "admin" \/ user.role = "curator"
           b == event.creator = user._id
           c == has(event, "groupRestriction") /\
                \E i \in DOMAIN event.groupRestriction :
                  LET group == event.groupRestriction[i]
                  IN has(group, "administrator") /\ group.administrator = user._id
       IN Returned(a \/ b \/ c)

\* _.curry of a two-argument function: called with fewer than two arguments
\* it returns a function holding them, else it returns the function's result
curry(name, args) ==
  IF Len(args) < 2 THEN [type |-> "function", name |-> name, bound |-> args]
  ELSE IF name = "canView"
       THEN [type |-> "boolean", value |-> canView(args[1], args[2])]
       ELSE LET r == canEdit(args[1], args[2])
            IN IF r.threw THEN [type |-> "throw", error |-> r.error]
               ELSE [type |-> "boolean", value |-> r.value]

\* calling what curry returned with further arguments
call(f, args) == curry(f.name, f.bound \o args)

\* !!v: a function object is truthy
truthy(v) == IF v.type = "function" THEN TRUE ELSE v.value

---------------------------------------------------------------------------
(* The inputs of the predicates *)

Ids == {"u1", "u2"}
GroupIds == {"g1", "g2"}
Roles == {"admin", "curator", "user"}

PopulatedGroups ==
  {[_id |-> g] : g \in GroupIds} \cup
  {[_id |-> g, administrator |-> u] : g \in GroupIds, u \in Ids}

PredUsers ==
  {NoUser} \cup
  {("_id" :> u) @@ ("role" :> r) @@ g :
     u \in Ids, r \in Roles, g \in Optional("groups", SeqsUpTo(GroupIds, MaxUserGroups))}

PredEvents ==
  {("creator" :> u) @@ g :
     u \in Ids, g \in Optional("groupRestriction", SeqsUpTo(PopulatedGroups, MaxRestriction))}

InitStore ==
  /\ events = <<>>
  /\ notifications = <<>>
  /\ now = 0
  /\ resp = EmptyObject
  /\ pending = {}

InitPredicates ==
  /\ InitStore
  /\ pc = "call"
  /\ pUser \in PredUsers
  /\ pEvent \in PredEvents
  /\ pView = FALSE
  /\ pEdit = Returned(FALSE)

Evaluate ==
  /\ pc = "call"
  /\ pView' = canView(pUser, pEvent)
  /\ pEdit' = canEdit(pUser, pEvent)
  /\ pc' = "done"
  /\ UNCHANGED <<events, notifications, now, resp, pending, pUser, pEvent>>

SpecPredicates == InitPredicates /\ [][Evaluate]_vars

---------------------------------------------------------------------------
(* Users and groups: documents of other collections, read and never written *)

Users == {"u1", "u2", "u3"}

\* req.user as the authentication middleware provides it
UserDoc(u) ==
  CASE u = "u1" -> [_id |-> "u1", role |-> "admin", groups |-> <<>>]
    [] u = "u2" -> [_id |-> "u2", role |-> "user", groups |-> <<"g1">>]
    [] OTHER    -> [_id |-> "u3", role |-> "user", groups |-> <<>>]

Actors == {UserDoc(u) : u \in Users}

\* a group as populate('groupRestriction', 'administrator') resolves it;
\* g1 has no administrator, g2 is administered by u3
GroupDoc(g) ==
  IF g = "g2" THEN [_id |-> g, administrator |-> "u3"] ELSE [_id |-> g]

populate(event) ==
  [event EXCEPT !.groupRestriction = [i \in DOMAIN @ |-> GroupDoc(@[i])]]

---------------------------------------------------------------------------
(* Request bodies *)

ForgedLists ==
  ("participants" :> <<[participant |-> "u2", datetime |-> 0]>>) @@
  ("messages" :> <<[poster |-> "u2", datetime |-> 0, text |-> "forged"]>>)

\* what a client may send to create: no place; an open event with a creator
\* and lists of the client's own; an event restricted to a group
CreateBodies ==
  LET fields == [name |-> "n1", datetime |-> "d1", meetupTime |-> "t1", meetupPlace |-> "m1"]
  IN {fields,
      fields @@ [place |-> "pl1"] @@ ForgedLists @@ ("creator" :> "u2"),
      fields @@ [place |-> "pl1", groupRestriction |-> <<"g1">>]}

\* what a client may send to update: an empty name, an empty restriction and
\* fields update does not copy; a value for every field update copies
UpdateBodies ==
  {[name |-> "", groupRestriction |-> <<>>, canceled |-> FALSE, _id |-> 0] @@ ForgedLists,
   [name |-> "n2", datetime |-> "d2", meetupTime |-> "t2", meetupPlace |-> "m2",
    groupRestriction |-> <<"g2">>]}

\* what a client may send to message: a text, with a poster and a datetime of
\* the client's own
MessageBodies ==
  {[text |-> "hi", poster |-> "u1", datetime |-> 0]}

EventIds == 1 .. MaxEvents

---------------------------------------------------------------------------
(* Steps of the handlers *)

\* a || b for strings
orElse(a, b) == IF truthyString(a) THEN a ELSE b

\* req.body as create leaves it when it keeps the client's participants and messages
createBody_keepsClientLists(user, body, t) ==
  [k \in DOMAIN body \cup {"created", "creator", "participants"} |->
     CASE k = "created"      -> t
       [] k = "creator"      -> user._id
       [] k = "participants" -> <<[participant |-> user._id, datetime |-> t]>>
       [] OTHER              -> body[k]]

\* req.body as create hands it to Event.create
createBody(user, body, t) ==
  LET stripped == delete(delete(body, "participants"), "messages")
  IN [k \in DOMAIN stripped \cup {"created", "creator", "participants"} |->
        CASE k = "created"      -> t
          [] k = "creator"      -> user._id
          [] k = "participants" -> <<[participant |-> user._id, datetime |-> t]>>
          [] OTHER              -> stripped[k]]

\* the document Event.create stores for a body: an array that is not given is
\* empty, and canceled is false unless given
EventCreate(body) ==
  [name |-> body.name, datetime |-> body.datetime, meetupTime |-> body.meetupTime,
   meetupPlace |-> body.meetupPlace, place |-> body.place,
   created |-> body.created, creator |-> body.creator,
   canceled |-> IF has(body, "canceled") THEN body.canceled ELSE FALSE,
   groupRestriction |-> IF has(body, "groupRestriction") THEN body.groupRestriction ELSE <<>>,
   participants |-> body.participants,
   messages |-> IF has(body, "messages") THEN body.messages ELSE <<>>]

\* update that also copies canceled from the body
updateEvent_assignsCanceled(event, body) ==
  LET b == delete(delete(delete(body, "_id"), "participants"), "messages")
      field(k) == IF has(b, k) THEN orElse(b[k], event[k]) ELSE event[k]
  IN [event EXCEPT
        !.name = field("name"),
        !.datetime = field("datetime"),
        !.meetupTime = field("meetupTime"),
        !.meetupPlace = field("meetupPlace"),
        !.groupRestriction = IF has(b, "groupRestriction") THEN b.groupRestriction ELSE @,
        !.canceled = IF has(b, "canceled") THEN b.canceled ELSE @]

\* the event as update saves it
updateEvent(event, body) ==
  LET b == delete(delete(delete(body, "_id"), "participants"), "messages")
      field(k) == IF has(b, k) THEN orElse(b[k], event[k]) ELSE event[k]
  IN [event EXCEPT
        !.name = field("name"),
        !.datetime = field("datetime"),
        !.meetupTime = field("meetupTime"),
        !.meetupPlace = field("meetupPlace"),
        \* an array, also an empty one, is truthy
        !.groupRestriction = IF has(b, "groupRestriction") THEN b.groupRestriction ELSE @]

\* one notification per participant entry; data.event stands for the saved
\* event, data.when for moment(event.datetime).format('llll')
cancelNotifications(event, id, t) ==
  [i \in DOMAIN event.participants |->
     [user |-> event.participants[i].participant, datetime |-> t,
      data |-> [name |-> "event.cancel", event |-> id, when |-> [format |-> "llll", of |-> event.datetime]]]]

alreadyJoined_never(user, event) == FALSE

\* _.find(event.participants, p => req.user._id.equals(p.participant))
alreadyJoined(user, event) ==
  \E i \in DOMAIN event.participants : event.participants[i].participant = user._id

joinPush(user, event, t) ==
  [event EXCEPT !.participants = Append(@, [datetime |-> t, participant |-> user._id])]

\* _.findIndex: the first index that matches, from 0, or -1
findIndex(participants, user) ==
  LET hits == {i \in DOMAIN participants : participants[i].participant = user._id}
  IN IF hits = {} THEN -1
     ELSE (CHOOSE i \in hits : \A j \in hits : i <= j) - 1

\* splice(start) without a count removes the rest of the array
splice_toEnd(s, start, count) == SubSeq(s, 1, start)

\* array.splice(start, count) with 0 <= start
splice(s, start, count) ==
  SubSeq(s, 1, start) \o
  (IF start + count >= Len(s) THEN <<>> ELSE SubSeq(s, start + count + 1, Len(s)))

\* the message as it is pushed: datetime and poster are the server's
stamp(user, body, t) ==
  [text |-> body.text, datetime |-> t, poster |-> user._id]

\* _.filter(ids, id => !req.user._id.equals(id))
RECURSIVE reject(_, _)
reject(ids, id) ==
  IF ids = <<>> THEN <<>>
  ELSE IF Head(ids) = id THEN reject(Tail(ids), id)
  ELSE <<Head(ids)>> \o reject(Tail(ids), id)

pluck(s, f) == [i \in DOMAIN s |-> s[i][f]]

\* message notifications that also go to the poster
messageNotifications_toAll(event, id, user, body, t) ==
  LET ids == pluck(event.participants, "participant")
  IN [i \in DOMAIN ids |->
        [user |-> ids[i], datetime |-> t,
         data |-> [name |-> "event.message", text |-> body.text,
                   event |-> id, poster |-> user]]]

messageNotifications(event, id, user, body, t) ==
  LET ids == reject(pluck(event.participants, "participant"), user._id)
  IN [i \in DOMAIN ids |->
        [user |-> ids[i], datetime |-> t,
         data |-> [name |-> "event.message", text |-> body.text,
                   event |-> id, poster |-> user]]]

---------------------------------------------------------------------------
(* Handlers, each answered within one step *)

Response(op, user, id, status) ==
  [op |-> op, user |-> user, id |-> id, status |-> status]

WithMessage(r, text) == r @@ ("message" :> text)

\* the response together with the body of the request it answers
Of(r, body) == r @@ ("body" :> body)

Receive ==
  /\ now < MaxRequests
  /\ now' = now + 1

PredicatesIdle == UNCHANGED <<pc, pUser, pEvent, pView, pEdit>>

\* exports.all: the curried canView is given to _.filter, which calls it with
\* each event
all(user) ==
  /\ Receive
  /\ resp' = [op |-> "all", user |-> user, status |-> 200,
              body |-> {id \in DOMAIN events :
                          truthy(call(curry("canView", <<user>>), <<populate(events[id])>>))}]
  /\ UNCHANGED <<events, notifications, pending>>
  /\ PredicatesIdle

\* exports.show: the test is of canView(req.user), the curried function
show(user, id) ==
  /\ Receive
  /\ resp' = IF id \notin DOMAIN events THEN Response("show", user, id, 404)
             ELSE IF ~truthy(curry("canView", <<user>>)) THEN Response("show", user, id, 403)
             ELSE Response("show", user, id, 200)
  /\ UNCHANGED <<events, notifications, pending>>
  /\ PredicatesIdle

create(user, body) ==
  /\ Receive
  /\ IF ~has(body, "place")
     THEN /\ resp' = Of(WithMessage(Response("create", user, 0, 403),
                                    "An event must have an associated place."), body)
          /\ UNCHANGED events
     ELSE /\ Len(events) < MaxEvents
          /\ events' = Append(events, EventCreate(createBody(user, body, now')))
          /\ resp' = Of(Response("create", user, Len(events) + 1, 201), body)
  /\ UNCHANGED <<notifications, pending>>
  /\ PredicatesIdle

update(user, id, body) ==
  /\ Receive
  /\ IF id \notin DOMAIN events
     THEN /\ resp' = Of(Response("update", user, id, 404), body)
          /\ UNCHANGED events
     ELSE IF ~truthy(curry("canEdit", <<user>>))
     THEN /\ resp' = Of(WithMessage(Response("update", user, id, 403),
                                    "You are not authorized to modify this event"), body)
          /\ UNCHANGED events
     ELSE /\ events' = [events EXCEPT ![id] = updateEvent(@, body)]
          /\ resp' = Of(Response("update", user, id, 200), body)
  /\ UNCHANGED <<notifications, pending>>
  /\ PredicatesIdle

cancel(user, id) ==
  /\ Receive
  /\ IF id \notin DOMAIN events
     THEN /\ resp' = Response("cancel", user, id, 404)
          /\ UNCHANGED <<events, notifications>>
     ELSE IF ~truthy(curry("canEdit", <<user>>))
     THEN /\ resp' = WithMessage(Response("cancel", user, id, 403),
                                 "You are not authorized to modify this event")
          /\ UNCHANGED <<events, notifications>>
     ELSE /\ events' = [events EXCEPT ![id].canceled = TRUE]
          /\ notifications' = notifications \o cancelNotifications(events'[id], id, now')
          /\ resp' = Response("cancel", user, id, 200)
  /\ UNCHANGED pending
  /\ PredicatesIdle

join(user, id) ==
  /\ Receive
  /\ IF id \notin DOMAIN events
     THEN /\ resp' = Response("join", user, id, 404)
          /\ UNCHANGED events
     ELSE IF ~truthy(curry("canView", <<user>>))
     THEN /\ resp' = Response("join", user, id, 403)
          /\ UNCHANGED events
     ELSE IF alreadyJoined(user, events[id])
     THEN /\ resp' = WithMessage(Response("join", user, id, 403),
                                 "You have already joined this event.")
          /\ UNCHANGED events
     ELSE /\ events' = [events EXCEPT ![id] = joinPush(user, @, now')]
          /\ resp' = Response("join", user, id, 200)
  /\ UNCHANGED <<notifications, pending>>
  /\ PredicatesIdle

unjoin(user, id) ==
  /\ Receive
  /\ IF id \notin DOMAIN events
     THEN /\ resp' = Response("unjoin", user, id, 404)
          /\ UNCHANGED events
     ELSE LET pIdx == findIndex(events[id].participants, user)
          IN IF pIdx = -1
             THEN /\ resp' = WithMessage(Response("unjoin", user, id, 403),
                                         "You have not joined this event.")
                  /\ UNCHANGED events
             ELSE /\ events' = [events EXCEPT ![id].participants = splice(@, pIdx, 1)]
                  /\ resp' = Response("unjoin", user, id, 200)
  /\ UNCHANGED <<notifications, pending>>
  /\ PredicatesIdle

message(user, id, body) ==
  /\ Receive
  /\ IF id \notin DOMAIN events
     THEN /\ resp' = Of(Response("message", user, id, 404), body)
          /\ UNCHANGED <<events, notifications>>
     ELSE IF ~alreadyJoined(user, events[id])
     THEN /\ resp' = Of(WithMessage(Response("message", user, id, 403),
                                    "You must be attending this event to send messages."), body)
          /\ UNCHANGED <<events, notifications>>
     ELSE /\ Len(events[id].messages) < MaxMessages
          /\ events' = [events EXCEPT ![id].messages = Append(@, stamp(user, body, now'))]
          /\ notifications' = notifications \o
                                messageNotifications(events'[id], id, user, body, now')
          /\ resp' = Of(Response("message", user, id, 200), body)
  /\ UNCHANGED pending
  /\ PredicatesIdle

Init ==
  /\ InitStore
  /\ pc = "idle"
  /\ pUser = NoUser
  /\ pEvent = [creator |-> "u1"]
  /\ pView = FALSE
  /\ pEdit = Returned(FALSE)

Next ==
  \/ \E user \in Actors \cup {NoUser} : all(user)
  \/ \E user \in Actors \cup {NoUser}, id \in EventIds : show(user, id)
  \/ \E user \in Actors, body \in CreateBodies : create(user, body)
  \/ \E user \in Actors, id \in EventIds, body \in UpdateBodies : update(user, id, body)
  \/ \E user \in Actors, id \in EventIds : cancel(user, id)
  \/ \E user \in Actors, id \in EventIds : join(user, id)
  \/ \E user \in Actors, id \in EventIds : unjoin(user, id)
  \/ \E user \in Actors, id \in EventIds, body \in MessageBodies : message(user, id, body)

\* requests handled one at a time
Spec == Init /\ [][Next]_vars

---------------------------------------------------------------------------
(* join as its two callbacks: the findById callback, which checks and pushes *)
(* on the document it was given, and the save callback, which answers.       *)
(* Other requests are handled between the two.                               *)

\* a save that fails when the stored document is no longer the one loaded
joinSaveStatus_versionChecked(stored, request) ==
  IF stored = request.loaded THEN 200 ELSE 500

\* the save callback answers res.json(event) unless the store reports an error,
\* and save is given nothing that ties it to the document as it was loaded
joinSaveStatus(stored, request) == 200

\* What the store holds after save of a document with a pushed participant: the
\* store client either sends the push alone or sends the array as the request
\* holds it.  Only the path the handler modified is written.
save(stored, request, write) ==
  IF write = "push"
  THEN [stored EXCEPT !.participants =
          Append(@, request.event.participants[Len(request.event.participants)])]
  ELSE [stored EXCEPT !.participants = request.event.participants]

joinLoad(user, id) ==
  /\ Receive
  /\ Cardinality(pending) < MaxPending
  /\ IF id \notin DOMAIN events
     THEN /\ resp' = Response("join", user, id, 404)
          /\ UNCHANGED pending
     ELSE IF ~truthy(curry("canView", <<user>>))
     THEN /\ resp' = Response("join", user, id, 403)
          /\ UNCHANGED pending
     ELSE IF alreadyJoined(user, events[id])
     THEN /\ resp' = WithMessage(Response("join", user, id, 403),
                                 "You have already joined this event.")
          /\ UNCHANGED pending
     ELSE /\ pending' = pending \cup
                          {[user |-> user, id |-> id, loaded |-> events[id],
                            event |-> joinPush(user, events[id], now')]}
          /\ UNCHANGED resp
  /\ UNCHANGED <<events, notifications>>
  /\ PredicatesIdle

joinSave(request) ==
  /\ request \in pending
  /\ pending' = pending \ {request}
  /\ LET status == joinSaveStatus(events[request.id], request)
     IN /\ resp' = Response("join", request.user, request.id, status)
        /\ IF status = 200
           THEN \E write \in {"push", "set"} :
                  events' = [events EXCEPT ![request.id] = save(@, request, write)]
           ELSE UNCHANGED events
  /\ UNCHANGED <<notifications, now>>
  /\ PredicatesIdle

NextConcurrent ==
  \/ \E user \in Actors, body \in CreateBodies : create(user, body)
  \/ \E user \in Actors, id \in EventIds, body \in UpdateBodies : update(user, id, body)
  \/ \E user \in Actors, id \in EventIds : cancel(user, id)
  \/ \E user \in Actors, id \in EventIds : unjoin(user, id)
  \/ \E user \in Actors, id \in EventIds, body \in MessageBodies : message(user, id, body)
  \/ \E user \in Actors, id \in EventIds : joinLoad(user, id)
  \/ \E request \in pending : joinSave(request)

\* the requests that write, with join requests in flight together with each
\* other and with the other requests
SpecConcurrent == Init /\ [][NextConcurrent]_vars

---------------------------------------------------------------------------
(* Properties *)

\* the request answered by this step was received in this step
Answered(ops) ==
  /\ now' = now + 1
  /\ resp' # resp
  /\ resp'.op \in ops

\* the request answered by this step is for an event that exists
OnEvent(ops) ==
  /\ Answered(ops)
  /\ resp'.id \in DOMAIN events

Occurrences(u, participants) ==
  Cardinality({i \in DOMAIN participants : participants[i].participant = u})

RemoveAt(s, i) == [j \in 1 .. Len(s) - 1 |-> IF j < i THEN s[j] ELSE s[j + 1]]

\* C1: a show or join request for an existing event by an actor who cannot view
\* it is answered 403, and the stored events (the participants among them) are
\* left as they were.
C1_NonViewerRejected ==
  [][OnEvent({"show", "join"}) /\ ~canView(resp'.user, populate(events[resp'.id]))
       => resp'.status = 403 /\ events' = events]_vars

\* C2: an update or cancel request for an existing event by an actor who cannot
\* edit it is answered 403 with a message and changes neither the stored event
\* nor the notifications; an event becomes canceled only by a cancel request of
\* an actor who can edit it.
C2_NonEditorRejected ==
  [][/\ OnEvent({"update", "cancel"}) /\ ~canEdit(resp'.user, populate(events[resp'.id])).value
          => /\ resp'.status = 403
             /\ has(resp', "message")
             /\ events' = events
             /\ notifications' = notifications
     /\ \A id \in DOMAIN events :
          ~events[id].canceled /\ events'[id].canceled
            => /\ OnEvent({"cancel"})
               /\ resp'.id = id
               /\ canEdit(resp'.user, populate(events[id])).value]_vars

\* the predicate C3 states for canView
C3_Reference(user, event) ==
  IF ~has(event, "groupRestriction") \/ event.groupRestriction = <<>> THEN TRUE
  ELSE IF user = NoUser THEN FALSE
  ELSE \/ user.role \in {"admin", "curator"}
       \/ \E group \in Range(event.groupRestriction) :
            has(group, "administrator") /\ group.administrator = user._id
       \/ /\ has(user, "groups")
          /\ {group._id : group \in Range(event.groupRestriction)} \cap Range(user.groups) # {}

\* C3: canView returns what the reference predicate says, for every user (an
\* absent one too) and every event: true for an event without restriction, false
\* for an absent user on a restricted event, and for a present user on a
\* restricted event true exactly for an admin or curator, the administrator of
\* a restricting group, or a member of a restricting group.
C3_CanViewIsReference ==
  pc = "done" => pView = C3_Reference(pUser, pEvent)

\* canView has returned true for a plain user on a restricted event only
\* because one of the user's groups is the second restricting group
C3_MemberViews ==
  /\ pc = "done"
  /\ pView
  /\ present(pUser) /\ pUser.role = "user" /\ has(pUser, "groups")
  /\ has(pEvent, "groupRestriction") /\ Len(pEvent.groupRestriction) = 2
  /\ \A i \in DOMAIN pEvent.groupRestriction :
       /\ has(pEvent.groupRestriction[i], "administrator")
       /\ pEvent.groupRestriction[i].administrator # pUser._id
  /\ pEvent.groupRestriction[1]._id \notin Range(pUser.groups)
  /\ pEvent.groupRestriction[2]._id \in Range(pUser.groups)

\* C4: canEdit returns false for an absent user, and for a present user it
\* returns true exactly for an admin or curator, the event's creator, or the
\* administrator of a group in the event's groupRestriction.
C4_CanEditIsReference ==
  pc = "done" =>
    pEdit = Returned(
      IF pUser = NoUser THEN FALSE
      ELSE \/ pUser.role \in {"admin", "curator"}
           \/ pEvent.creator = pUser._id
           \/ /\ has(pEvent, "groupRestriction")
              /\ \E group \in Range(pEvent.groupRestriction) :
                   has(group, "administrator") /\ group.administrator = pUser._id)

NoDuplicateParticipant ==
  \A id \in DOMAIN events, u \in Users : Occurrences(u, events[id].participants) <= 1

\* C5: with requests handled one at a time no user is twice among an event's
\* participants; a join by a user who is not a participant is answered 200 and
\* appends one entry for that user, and a join by a participant is answered 403
\* 'already joined' and leaves the participants as they were.
C5_JoinOnce ==
  /\ []NoDuplicateParticipant
  /\ [][OnEvent({"join"}) =>
          LET u == resp'.user._id
              before == events[resp'.id].participants
              after == events'[resp'.id].participants
          IN IF Occurrences(u, before) = 0
             THEN /\ resp'.status = 200
                  /\ Len(after) = Len(before) + 1
                  /\ SubSeq(after, 1, Len(before)) = before
                  /\ after[Len(after)].participant = u
             ELSE /\ resp'.status = 403
                  /\ has(resp', "message")
                  /\ resp'.message = "You have already joined this event."
                  /\ after = before]_vars

\* a user who joined an event of another user has asked to join it again
C5_SecondJoinRejected ==
  /\ has(resp, "op") /\ resp.op = "join"
  /\ resp.status = 403 /\ has(resp, "message")
  /\ resp.id \in DOMAIN events
  /\ events[resp.id].creator # resp.user._id
  /\ Occurrences(resp.user._id, events[resp.id].participants) = 1
  /\ Len(events[resp.id].participants) = 2

\* C6: an event that is canceled is canceled in every later state, whatever
\* request follows, an update whose body carries canceled = false included.
C6_CanceledStays ==
  [][\A id \in DOMAIN events :
       events[id].canceled => id \in DOMAIN events' /\ events'[id].canceled]_vars

\* an update whose body carries canceled = false has been applied to a canceled
\* event
C6_UpdateOfCanceled ==
  /\ has(resp, "op") /\ resp.op = "update" /\ resp.status = 200
  /\ has(resp.body, "canceled") /\ ~resp.body.canceled
  /\ events[resp.id].canceled

\* C7: after a successful create the stored event's creator is the
\* authenticated user, its participants are one entry for that user and its
\* messages are empty, whatever the body carried; a successful update leaves
\* the event's participants, messages and creator as they were.
C7_ClientListsIgnored ==
  [][/\ Answered({"create"}) /\ resp'.status = 201
          => LET event == events'[resp'.id]
             IN /\ resp'.id = Len(events) + 1
                /\ event.creator = resp'.user._id
                /\ Len(event.participants) = 1
                /\ event.participants[1].participant = resp'.user._id
                /\ event.messages = <<>>
     /\ OnEvent({"update"}) /\ resp'.status = 200
          => /\ events'[resp'.id].participants = events[resp'.id].participants
             /\ events'[resp'.id].messages = events[resp'.id].messages
             /\ events'[resp'.id].creator = events[resp'.id].creator]_vars

\* an event has been created from a body that carried a creator, participants
\* and messages of the client's own
C7_ForgedCreate ==
  /\ has(resp, "op") /\ resp.op = "create" /\ resp.status = 201
  /\ has(resp.body, "participants") /\ has(resp.body, "messages")
  /\ has(resp.body, "creator") /\ resp.body.creator # resp.user._id

\* C8: a message request by a user who is not a participant is answered 403 and
\* changes neither the messages nor the notifications; one by a participant
\* appends one message whose poster is that user and submits
\* len(participants) - 1 notifications named event.message, one for each
\* participant other than the poster and none for the poster.
C8_MessageNotifiesAllButOne ==
  [][OnEvent({"message"}) =>
       LET u == resp'.user._id
           event == events[resp'.id]
           after == events'[resp'.id]
           sent == SubSeq(notifications', Len(notifications) + 1, Len(notifications'))
       IN /\ Len(notifications') >= Len(notifications)
          /\ SubSeq(notifications', 1, Len(notifications)) = notifications
          /\ IF Occurrences(u, event.participants) = 0
             THEN /\ resp'.status = 403
                  /\ events' = events
                  /\ sent = <<>>
             ELSE /\ resp'.status = 200
                  /\ Len(after.messages) = Len(event.messages) + 1
                  /\ SubSeq(after.messages, 1, Len(event.messages)) = event.messages
                  /\ after.messages[Len(after.messages)].poster = u
                  /\ Len(sent) = Len(event.participants) - 1
                  /\ \A i \in DOMAIN sent :
                       sent[i].data.name = "event.message" /\ sent[i].user # u
                  /\ \A p \in {event.participants[i].participant : i \in DOMAIN event.participants} \ {u} :
                       Cardinality({i \in DOMAIN sent : sent[i].user = p}) = 1]_vars

\* C8, as it holds when a user can be among the participants more than once: a
\* message request by a user who is not a participant is answered 403 and
\* changes neither the messages nor the notifications; one by a participant
\* appends one message whose poster is that user and submits one notification
\* named event.message for each participant entry that is not the poster's, in
\* the entries' order, and none for the poster: len(participants) less the
\* number of the poster's entries.
C8_MessageNotifiesOthers ==
  [][OnEvent({"message"}) =>
       LET u == resp'.user._id
           event == events[resp'.id]
           after == events'[resp'.id]
           sent == SubSeq(notifications', Len(notifications) + 1, Len(notifications'))
           others == SelectSeq([i \in DOMAIN event.participants |->
                                  event.participants[i].participant],
                               LAMBDA p : p # u)
       IN /\ Len(notifications') >= Len(notifications)
          /\ SubSeq(notifications', 1, Len(notifications)) = notifications
          /\ IF Occurrences(u, event.participants) = 0
             THEN /\ resp'.status = 403
                  /\ events' = events
                  /\ sent = <<>>
             ELSE /\ resp'.status = 200
                  /\ Len(after.messages) = Len(event.messages) + 1
                  /\ SubSeq(after.messages, 1, Len(event.messages)) = event.messages
                  /\ after.messages[Len(after.messages)].poster = u
                  /\ Len(sent) = Len(event.participants) - Occurrences(u, event.participants)
                  /\ [i \in DOMAIN sent |-> sent[i].user] = others
                  /\ \A i \in DOMAIN sent : sent[i].data.name = "event.message"]_vars

\* a user who is twice among the participants of another user's event has
\* posted a message to it, and one notification was submitted
C8_PosterTwice ==
  /\ has(resp, "op") /\ resp.op = "message" /\ resp.status = 200
  /\ Len(events[resp.id].participants) = 3
  /\ Occurrences(resp.user._id, events[resp.id].participants) = 2
  /\ Len(notifications) = 1

\* C9: an unjoin request by a user who is not a participant is answered 403 and
\* leaves the participants as they were; one by a participant removes that
\* user's entry and keeps every other entry, in the same order.
C9_UnjoinRemovesOne ==
  [][OnEvent({"unjoin"}) =>
       LET u == resp'.user._id
           before == events[resp'.id].participants
           after == events'[resp'.id].participants
       IN IF Occurrences(u, before) = 0
          THEN resp'.status = 403 /\ after = before
          ELSE /\ resp'.status = 200
               /\ \E i \in DOMAIN before :
                    before[i].participant = u /\ after = RemoveAt(before, i)]_vars

\* the creator, the first participant, has left an event that another user had
\* joined
C9_FirstLeft ==
  /\ has(resp, "op") /\ resp.op = "unjoin" /\ resp.status = 200
  /\ events[resp.id].creator = resp.user._id
  /\ Len(events[resp.id].participants) = 1
  /\ events[resp.id].participants[1].participant # resp.user._id

\* C10: a join request that passed its check against the document it loaded is
\* answered 200 when it saves and its entry is then in the stored event,
\* whatever was saved since it loaded: two join requests of one user that both
\* load before either saves both persist.
C10_StaleJoinPersists ==
  [][\A request \in pending \ pending' :
       /\ resp' = Response("join", request.user, request.id, 200)
       /\ \E i \in DOMAIN events'[request.id].participants :
            events'[request.id].participants[i] =
              request.event.participants[Len(request.event.participants)]]_vars

\* both of two join requests of one user have been answered 200 and the user is
\* twice among the event's participants
C10_JoinedTwice ==
  /\ pending = {}
  /\ has(resp, "op") /\ resp.op = "join" /\ resp.status = 200
  /\ Occurrences(resp.user._id, events[resp.id].participants) = 2

=============================================================================
